---- MODULE Spec2Model ----
(***************************************************************************)
(* Model of the background download manager                                *)
(* (src/src/modules/downloadManager.ts, class DownloadManager).            *)
(*                                                                         *)
(* A DownloadJob is a JavaScript object; the job store (Map), the          *)
(* callbacks of executeDownload and the notifications all hold references  *)
(* to it.  The model therefore keeps the job objects in `heap` (indexed by *)
(* allocation order) and lets `jobs` map an id to the index of the object  *)
(* the Map holds for it.  Optional fields are sets: {} is undefined, {v}   *)
(* is the value v.  Strings that the code only concatenates are sequences  *)
(* of segments; output chunks are named by their text and ChunkText gives  *)
(* their characters to the pattern matchers.  The fields url, type and     *)
(* outputPath of a job are written once by startDownload and read by no    *)
(* callback; the model leaves them out.                                    *)
(*                                                                         *)
(* The child process follows Node's child_process: a spawned process       *)
(* delivers stdout/stderr chunks and then 'close' with its exit code (null *)
(* after a signal); a launch that fails emits 'error' and then 'close'     *)
(* with the negated errno; spawn may also throw before any handler is      *)
(* attached.                                                               *)
(***************************************************************************)
EXTENDS Integers, Sequences, FiniteSets, TLC

VARIABLES
    heap,             \* the DownloadJob objects ever created, by allocation order
    jobs,             \* DownloadManager.jobs: id -> index of the stored object
    activeDownloads,  \* DownloadManager.activeDownloads: set of ids
    proc,             \* per job object: where its child process stands, and the
                      \* exit code once 'close' was emitted
    output,           \* per job object: the chunks appended to the closure variable
                      \* `output`, each with the stream it came from
    notified,         \* per job object: the notifications emitted for it, in order
    now,              \* the clock read by new Date() / Date.now(), in milliseconds
    last              \* the most recent call or callback (observation only)

vars == <<heap, jobs, activeDownloads, proc, output, notified, now, last>>

----------------------------------------------------------------------------
(* Bounds of the model *)

MaxChunks == 2      \* stdout/stderr chunks delivered in one behaviour
MaxHours == 1       \* hours the clock advances in one behaviour
MaxOutput == 3      \* chunks delivered in one behaviour of the single-job specification
MaxIds == 3         \* generateJobId calls in one behaviour
FracDigits == 1     \* fractional decimal digits kept of a parsed percentage
MaxStarts == 2      \* startDownload calls in one behaviour of the id-reuse specification

(* Program constants *)

MsPerHour == 60 * 60 * 1000
FullProgress == 100

RECURSIVE Pow10(_)
Pow10(n) == IF n = 0 THEN 1 ELSE 10 * Pow10(n - 1)

\* A progress value p is represented by the integer p * Scale.
Scale == Pow10(FracDigits)

None == {}
Some(v) == {v}
IsSet(opt) == opt # {}
TheValue(opt) == CHOOSE v \in opt : TRUE

----------------------------------------------------------------------------
(* Output text *)

Digits == {"0", "1", "2", "3", "4", "5", "6", "7", "8", "9"}

DigitValue(c) ==
    CASE c = "0" -> 0 [] c = "1" -> 1 [] c = "2" -> 2 [] c = "3" -> 3
      [] c = "4" -> 4 [] c = "5" -> 5 [] c = "6" -> 6 [] c = "7" -> 7
      [] c = "8" -> 8 [] c = "9" -> 9

\* The line terminators that `.` of a JavaScript regular expression rejects.
LineTerminators == {"\n", "\r"}

DestinationPrefix ==
    <<"[", "d", "o", "w", "n", "l", "o", "a", "d", "]", " ",
      "D", "e", "s", "t", "i", "n", "a", "t", "i", "o", "n", ":", " ">>

DownloadTag == <<"[", "d", "o", "w", "n", "l", "o", "a", "d", "]", " ">>

\* The characters of every chunk the model's processes write.
ChunkText(c) ==
    CASE c = "10%" -> <<"1", "0", "%">>
      [] c = "55%" -> <<"5", "5", "%">>
      [] c = "100%" -> <<"1", "0", "0", "%">>
      [] c = "[download]  42.5% of 10.00MiB" ->
            DownloadTag \o <<" ", "4", "2", ".", "5", "%", " ", "o", "f", " ",
                             "1", "0", ".", "0", "0", "M", "i", "B">>
      [] c = "[download] Destination: /tmp/movie.mp4" ->
            DestinationPrefix \o <<"/", "t", "m", "p", "/", "m", "o", "v", "i", "e",
                                   ".", "m", "p", "4">>
      [] c = "[download] Destination: a.mp4\n[download]   7.0% of 1MiB" ->
            DestinationPrefix \o <<"a", ".", "m", "p", "4", "\n">> \o DownloadTag
              \o <<" ", " ", "7", ".", "0", "%", " ", "o", "f", " ", "1", "M", "i", "B">>
      [] c = "[download] 150% of ~1MiB" ->
            DownloadTag \o <<"1", "5", "0", "%", " ", "o", "f", " ", "~", "1", "M", "i", "B">>
      [] c = "[download]  12.5% of 3MiB, 80% left" ->
            DownloadTag \o <<" ", "1", "2", ".", "5", "%", " ", "o", "f", " ", "3", "M", "i", "B",
                             ",", " ", "8", "0", "%", " ", "l", "e", "f", "t">>
      [] c = "[download] Destination: /tmp/50% off/clip.mp4" ->
            DestinationPrefix \o <<"/", "t", "m", "p", "/", "5", "0", "%", " ", "o", "f", "f",
                                   "/", "c", "l", "i", "p", ".", "m", "p", "4">>
      [] c = "[info] 1 format(s)" ->
            <<"[", "i", "n", "f", "o", "]", " ", "1", " ", "f", "o", "r", "m", "a", "t",
              "(", "s", ")">>
      [] c = "warning: 3% lost" ->
            <<"w", "a", "r", "n", "i", "n", "g", ":", " ", "3", "%", " ", "l", "o", "s", "t">>
      [] c = "no such host" ->
            <<"n", "o", " ", "s", "u", "c", "h", " ", "h", "o", "s", "t">>

----------------------------------------------------------------------------
(* Progress interpreter: the two patterns of the stdout handler *)

\* The index after the longest run of digits of text that starts at i.
RECURSIVE DigitRunEnd(_, _)
DigitRunEnd(text, i) ==
    IF i <= Len(text) /\ text[i] \in Digits THEN DigitRunEnd(text, i + 1) ELSE i

\* The pattern without the repetition of its integer part: /(\d(?:\.\d+)?)%/.
ProgressMatchAtOneDigit(text, i) ==
    LET j == i + 1
        k == DigitRunEnd(text, j + 1)
    IN  IF i > Len(text) \/ text[i] \notin Digits \/ j > Len(text) THEN 0
        ELSE IF text[j] = "%" THEN j
        ELSE IF text[j] = "." /\ k > j + 1 /\ k <= Len(text) /\ text[k] = "%" THEN k
        ELSE 0

\* /(\d+(?:\.\d+)?)%/ tried at position i: the index of the "%" that ends the
\* match, or 0 when no match starts at i.
ProgressMatchAt(text, i) ==
    LET j == DigitRunEnd(text, i)
        k == DigitRunEnd(text, j + 1)
    IN  IF j = i \/ j > Len(text) THEN 0
        ELSE IF text[j] = "%" THEN j
        ELSE IF text[j] = "." /\ k > j + 1 /\ k <= Len(text) /\ text[k] = "%" THEN k
        ELSE 0

\* chunk.match(/(\d+(?:\.\d+)?)%/): the first capture group of the leftmost
\* match, as an optional value.
ProgressMatch(text) ==
    LET starts == {i \in 1..Len(text) : ProgressMatchAt(text, i) # 0}
    IN  IF starts = {} THEN None
        ELSE LET i == CHOOSE s \in starts : \A t \in starts : s <= t
             IN  Some(SubSeq(text, i, ProgressMatchAt(text, i) - 1))

RECURSIVE DecimalValue(_)
DecimalValue(digits) ==
    IF digits = <<>> THEN 0
    ELSE 10 * DecimalValue(SubSeq(digits, 1, Len(digits) - 1))
           + DigitValue(digits[Len(digits)])

\* parseFloat of a capture of the progress pattern, times Scale.
ParseFloat(capture) ==
    LET j == DigitRunEnd(capture, 1)
        intPart == SubSeq(capture, 1, j - 1)
        fracAll == SubSeq(capture, j + 1, Len(capture))
        fracKept == [n \in 1..FracDigits |->
                        IF n <= Len(fracAll) THEN fracAll[n] ELSE "0"]
    IN  DecimalValue(intPart) * Scale + DecimalValue(fracKept)

\* A test for the "[download] " tag alone, without "Destination: ".
PrefixAtTagOnly(text, i) ==
    /\ i + Len(DownloadTag) - 1 <= Len(text)
    /\ SubSeq(text, i, i + Len(DownloadTag) - 1) = DownloadTag

PrefixAt(text, i) ==
    /\ i + Len(DestinationPrefix) - 1 <= Len(text)
    /\ SubSeq(text, i, i + Len(DestinationPrefix) - 1) = DestinationPrefix

\* The index after the longest run of non-line-terminators that starts at i.
RECURSIVE LineEnd(_, _)
LineEnd(text, i) ==
    IF i <= Len(text) /\ text[i] \notin LineTerminators THEN LineEnd(text, i + 1) ELSE i

\* chunk.match(/\[download\] Destination: (.+)/): the capture group of the
\* leftmost match, as an optional value.
FilenameMatch(text) ==
    LET from(i) == i + Len(DestinationPrefix)
        starts == {i \in 1..Len(text) : PrefixAt(text, i) /\ LineEnd(text, from(i)) > from(i)}
    IN  IF starts = {} THEN None
        ELSE LET i == CHOOSE s \in starts : \A t \in starts : s <= t
             IN  Some(SubSeq(text, from(i), LineEnd(text, from(i)) - 1))

\* path.basename (POSIX): trailing separators are dropped, then the part
\* after the last separator is returned.
RECURSIVE StripTrailingSlashes(_)
StripTrailingSlashes(p) ==
    IF p # <<>> /\ p[Len(p)] = "/" THEN StripTrailingSlashes(SubSeq(p, 1, Len(p) - 1))
    ELSE p

\* A basename that keeps the directories of the path.
BasenameWholePath(p) == StripTrailingSlashes(p)

Basename(p) ==
    LET q == StripTrailingSlashes(p)
        seps == {i \in 1..Len(q) : q[i] = "/"}
        lastSep == IF seps = {} THEN 0 ELSE CHOOSE s \in seps : \A t \in seps : t <= s
    IN  SubSeq(q, lastSep + 1, Len(q))


----------------------------------------------------------------------------
(* The manager's state and its queries *)

\* The identifiers callers pass to startDownload.
Ids == {"dl_1", "dl_2"}

\* Exit codes reported by 'close': a number, or null (None) after a signal.
ExitCodes == {Some(0), Some(1), None}

\* A failed spawn reports the negated errno as exit code (ENOENT).
SpawnErrorCodes == {Some(-2)}
SpawnErrorMessage == "spawn yt-dlp ENOENT"

\* `${code}` of a template literal.
CodeString(code) ==
    CASE code = None -> "null"
      [] code = Some(0) -> "0"
      [] code = Some(1) -> "1"
      [] code = Some(-2) -> "-2"

\* Hours passed to clearOldJobs.
Thresholds == {0, 1}

Handles == 1..Len(heap)

Terminal(status) == status \in {"completed", "failed"}

MapSet(map, key, value) == (key :> value) @@ map

\* jobs.get(id): the stored object, as an optional value.
GetJob(id) == IF id \in DOMAIN jobs THEN Some(heap[jobs[id]]) ELSE None

\* A capture of stdout alone: the stderr handler's chunks are missing.
OutputTextStdoutOnly(out) ==
    LET RECURSIVE Keep(_)
        Keep(rest) ==
            IF rest = <<>> THEN <<>>
            ELSE (IF Head(rest).stream = "stdout" THEN <<Head(rest).chunk>> ELSE <<>>)
                   \o Keep(Tail(rest))
    IN  Keep(out)

\* The string held by the closure variable `output`: the chunks, concatenated.
OutputText(out) == [i \in 1..Len(out) |-> out[i].chunk]

GetAllJobs == {heap[jobs[id]] : id \in DOMAIN jobs}

GetActiveDownloads == {heap[jobs[id]] : id \in activeDownloads \cap DOMAIN jobs}

\* What a subscriber that queries the manager from inside a notification sees.
Seen(heapNow, jobsNow, activeNow, id) ==
    [job |-> IF id \in DOMAIN jobsNow THEN Some(heapNow[jobsNow[id]]) ELSE None,
     active |-> id \in activeNow]

Init ==
    /\ heap = <<>>
    /\ jobs = <<>>
    /\ activeDownloads = {}
    /\ proc = <<>>
    /\ output = <<>>
    /\ notified = <<>>
    /\ now = 0
    /\ last = [op |-> "new"]

----------------------------------------------------------------------------
(* startDownload and executeDownload *)

NewJob(id) ==
    [id |-> id, status |-> "pending", progress |-> None, filename |-> None,
     error |-> None, startTime |-> now, endTime |-> None]

\* An executeDownload that leaves the status to the first callback.
ExecuteDownloadStaysPending(job) == job

\* The synchronous part of executeDownload: the job as it is when spawn is called.
ExecuteDownload(job) == [job EXCEPT !.status = "downloading"]

\* startDownload without the registration in the active set.
ActiveAfterStartForgotten(active, id) == active

\* this.activeDownloads.add(id)
ActiveAfterStart(active, id) == active \cup {id}

\* spawnResult is what spawn(command, args) does: "running" (a child process
\* runs), "failing" (the launch fails and 'error' will be emitted) or "thrown"
\* (spawn throws, so no handler is attached and startDownload does not return).
StartDownload(id, spawnResult) ==
    /\ LET h == Len(heap) + 1
       IN  /\ heap' = Append(heap, ExecuteDownload(NewJob(id)))
           /\ jobs' = MapSet(jobs, id, h)
           /\ activeDownloads' = ActiveAfterStart(activeDownloads, id)
           /\ proc' = Append(proc, [phase |-> spawnResult, code |-> None])
           /\ output' = Append(output, <<>>)
           /\ notified' = Append(notified, <<>>)
           /\ last' = [op |-> "startDownload", id |-> id, h |-> h,
                       returned |-> spawnResult # "thrown"]
    /\ UNCHANGED now

\* A caller that keeps the documented contract of the id parameter
\* ("Unique job identifier"): the id was never given to a job before.
FreshId(id) == \A h \in Handles : heap[h].id # id

----------------------------------------------------------------------------
(* The callbacks executeDownload attaches to the child process *)

ProgressEvent(job) ==
    [id |-> job.id, progress |-> job.progress, status |-> "downloading"]

Emit(h, kind, payload, seen) ==
    [notified EXCEPT ![h] = Append(@, [kind |-> kind, payload |-> payload, seen |-> seen])]

\* A stdout handler that never lets the progress go down.
OnStdoutDataSmoothed(h, chunk) ==
    /\ h \in Handles
    /\ proc[h].phase = "running"
    /\ LET job == heap[h]
           progressMatch == ProgressMatch(ChunkText(chunk))
           filenameMatch == FilenameMatch(ChunkText(chunk))
           parsed == ParseFloat(TheValue(progressMatch))
           job1 == IF IsSet(progressMatch)
                   THEN [job EXCEPT !.progress =
                            IF IsSet(job.progress) /\ TheValue(job.progress) > parsed
                            THEN job.progress ELSE Some(parsed)]
                   ELSE job
           jobs1 == IF IsSet(progressMatch) THEN MapSet(jobs, job.id, h) ELSE jobs
           job2 == IF IsSet(filenameMatch)
                   THEN [job1 EXCEPT !.filename = Some(Basename(TheValue(filenameMatch)))]
                   ELSE job1
           jobs2 == IF IsSet(filenameMatch) THEN MapSet(jobs1, job.id, h) ELSE jobs1
       IN  /\ output' = [output EXCEPT ![h] = Append(@, [stream |-> "stdout", chunk |-> chunk])]
           /\ heap' = [heap EXCEPT ![h] = job2]
           /\ jobs' = jobs2
           /\ notified' =
                IF IsSet(progressMatch)
                THEN Emit(h, "progress", ProgressEvent(job1),
                          Seen([heap EXCEPT ![h] = job1], jobs1, activeDownloads, job.id))
                ELSE notified
    /\ last' = [op |-> "callback"]
    /\ UNCHANGED <<activeDownloads, proc, now>>

\* process.stdout.on('data', ...)
OnStdoutData(h, chunk) ==
    /\ h \in Handles
    /\ proc[h].phase = "running"
    /\ LET job == heap[h]
           progressMatch == ProgressMatch(ChunkText(chunk))
           filenameMatch == FilenameMatch(ChunkText(chunk))
           job1 == IF IsSet(progressMatch)
                   THEN [job EXCEPT !.progress = Some(ParseFloat(TheValue(progressMatch)))]
                   ELSE job
           jobs1 == IF IsSet(progressMatch) THEN MapSet(jobs, job.id, h) ELSE jobs
           job2 == IF IsSet(filenameMatch)
                   THEN [job1 EXCEPT !.filename = Some(Basename(TheValue(filenameMatch)))]
                   ELSE job1
           jobs2 == IF IsSet(filenameMatch) THEN MapSet(jobs1, job.id, h) ELSE jobs1
       IN  /\ output' = [output EXCEPT ![h] = Append(@, [stream |-> "stdout", chunk |-> chunk])]
           /\ heap' = [heap EXCEPT ![h] = job2]
           /\ jobs' = jobs2
           /\ notified' =
                IF IsSet(progressMatch)
                THEN Emit(h, "progress", ProgressEvent(job1),
                          Seen([heap EXCEPT ![h] = job1], jobs1, activeDownloads, job.id))
                ELSE notified
    /\ last' = [op |-> "callback"]
    /\ UNCHANGED <<activeDownloads, proc, now>>

\* process.stderr.on('data', ...)
OnStderrData(h, chunk) ==
    /\ h \in Handles
    /\ proc[h].phase = "running"
    /\ output' = [output EXCEPT ![h] = Append(@, [stream |-> "stderr", chunk |-> chunk])]
    /\ last' = [op |-> "callback"]
    /\ UNCHANGED <<heap, jobs, activeDownloads, proc, notified, now>>

\* A 'close' handler that clears the whole active set.
ActiveAfterCloseClearsAll(active, job) == {}

\* A 'close' handler that leaves the id in the active set.
ActiveAfterCloseKept(active, job) == active

\* this.activeDownloads.delete(job.id) of the 'close' handler
ActiveAfterClose(active, job) == active \ {job.id}

\* A 'close' handler that tests `code <= 0` (null compares as 0).
ClosedNonPositive(job, code, out) ==
    IF code = None \/ TheValue(code) <= 0
    THEN [job EXCEPT !.endTime = Some(now), !.status = "completed",
                     !.progress = Some(FullProgress * Scale)]
    ELSE [job EXCEPT !.endTime = Some(now), !.status = "failed",
                     !.error = Some(<<"Download failed with exit code: ",
                                      CodeString(code), "\n">> \o out)]

\* A 'close' handler that does not force the progress of a completed job.
ClosedKeepsProgress(job, code, out) ==
    IF code = Some(0)
    THEN [job EXCEPT !.endTime = Some(now), !.status = "completed"]
    ELSE [job EXCEPT !.endTime = Some(now), !.status = "failed",
                     !.error = Some(<<"Download failed with exit code: ",
                                      CodeString(code), "\n">> \o out)]

\* The job as the 'close' handler leaves it.
Closed(job, code, out) ==
    IF code = Some(0)
    THEN [job EXCEPT !.endTime = Some(now), !.status = "completed",
                     !.progress = Some(FullProgress * Scale)]
    ELSE [job EXCEPT !.endTime = Some(now), !.status = "failed",
                     !.error = Some(<<"Download failed with exit code: ",
                                      CodeString(code), "\n">> \o out)]

\* A 'close' handler that launches the process again after a failure.
OnCloseRetry(h, code) ==
    /\ h \in Handles
    /\ \/ proc[h].phase = "running" /\ code \in ExitCodes
       \/ proc[h].phase = "errored" /\ code \in SpawnErrorCodes
    /\ LET job == Closed(heap[h], code, OutputText(output[h]))
           heap1 == [heap EXCEPT ![h] = job]
           active1 == ActiveAfterClose(activeDownloads, job)
       IN  /\ heap' = heap1
           /\ activeDownloads' = active1
           /\ notified' = Emit(h, job.status, job, Seen(heap1, jobs, active1, job.id))
           /\ jobs' = MapSet(jobs, job.id, h)
    /\ proc' = [proc EXCEPT ![h] = IF code = Some(0) THEN [phase |-> "closed", code |-> code]
                                   ELSE [phase |-> "running", code |-> None]]
    /\ last' = [op |-> "callback"]
    /\ UNCHANGED <<output, now>>

\* The body of the 'close' handler, run for job object h with the code.
CloseHandler(h, code) ==
    /\ LET job == Closed(heap[h], code, OutputText(output[h]))
           heap1 == [heap EXCEPT ![h] = job]
           active1 == ActiveAfterClose(activeDownloads, job)
       IN  /\ heap' = heap1
           /\ activeDownloads' = active1
           /\ notified' = Emit(h, job.status, job, Seen(heap1, jobs, active1, job.id))
           /\ jobs' = MapSet(jobs, job.id, h)
    /\ proc' = [proc EXCEPT ![h] = [phase |-> "closed", code |-> code]]
    /\ last' = [op |-> "callback"]
    /\ UNCHANGED <<output, now>>

\* process.on('close', ...): after the exit of a running child, or after the
\* 'error' of a failed launch (then with the negated errno as code).
OnClose(h, code) ==
    /\ h \in Handles
    /\ \/ proc[h].phase = "running" /\ code \in ExitCodes
       \/ proc[h].phase = "errored" /\ code \in SpawnErrorCodes
    /\ CloseHandler(h, code)

\* An 'error' handler that leaves the id in the active set.
ActiveAfterErrorKept(active, job) == active

\* this.activeDownloads.delete(job.id) of the 'error' handler
ActiveAfterError(active, job) == active \ {job.id}

\* An 'error' handler that does not set endTime.
ErroredNoEndTime(job, message) ==
    [job EXCEPT !.status = "failed", !.error = Some(<<"Process error: ", message>>)]

\* An 'error' handler that does not set error.
ErroredNoDetail(job, message) ==
    [job EXCEPT !.endTime = Some(now), !.status = "failed"]

\* The job as the 'error' handler leaves it.
Errored(job, message) ==
    [job EXCEPT !.endTime = Some(now), !.status = "failed",
                !.error = Some(<<"Process error: ", message>>)]

\* process.on('error', ...): the launch failed.
OnError(h) ==
    /\ h \in Handles
    /\ proc[h].phase = "failing"
    /\ LET job == Errored(heap[h], SpawnErrorMessage)
           heap1 == [heap EXCEPT ![h] = job]
           active1 == ActiveAfterError(activeDownloads, job)
           jobs1 == MapSet(jobs, job.id, h)
       IN  /\ heap' = heap1
           /\ activeDownloads' = active1
           /\ jobs' = jobs1
           /\ notified' = Emit(h, "failed", job, Seen(heap1, jobs1, active1, job.id))
    /\ proc' = [proc EXCEPT ![h].phase = "errored"]
    /\ last' = [op |-> "callback"]
    /\ UNCHANGED <<output, now>>

----------------------------------------------------------------------------
(* clearOldJobs and the clock *)

CutoffTime(olderThanHours) == now - olderThanHours * MsPerHour

\* A test by age alone: the job started before the cutoff.
IsOldByStartTime(job, cutoffTime) == job.startTime < cutoffTime

\* A test that also removes the jobs that ended at the cutoff.
IsOldInclusive(job, cutoffTime) ==
    /\ job.status = "completed" \/ job.status = "failed"
    /\ IsSet(job.endTime) /\ TheValue(job.endTime) <= cutoffTime

\* The test of clearOldJobs on one stored job.
IsOld(job, cutoffTime) ==
    /\ job.status = "completed" \/ job.status = "failed"
    /\ IsSet(job.endTime) /\ TheValue(job.endTime) < cutoffTime

ClearOldJobs(olderThanHours) ==
    /\ LET cutoffTime == CutoffTime(olderThanHours)
           kept == {id \in DOMAIN jobs : ~IsOld(heap[jobs[id]], cutoffTime)}
       IN  /\ jobs' = [id \in kept |-> jobs[id]]
           /\ last' = [op |-> "clearOldJobs", olderThanHours |-> olderThanHours,
                       at |-> now, removed |-> DOMAIN jobs \ kept]
    /\ UNCHANGED <<heap, activeDownloads, proc, output, notified, now>>

\* Time passes between two calls or callbacks.
Tick ==
    /\ now + MsPerHour <= MaxHours * MsPerHour
    /\ now' = now + MsPerHour
    /\ UNCHANGED <<heap, jobs, activeDownloads, proc, output, notified, last>>

----------------------------------------------------------------------------
(* Specification: callers keep ids unique *)

SpawnResults == {"running", "failing", "thrown"}

StdoutChunks == {"55%", "[download] Destination: /tmp/movie.mp4"}

StderrChunks == {"no such host"}

RECURSIVE SumLen(_)
SumLen(seqs) == IF seqs = <<>> THEN 0 ELSE Len(Head(seqs)) + SumLen(Tail(seqs))

\* The chunks delivered so far, over all jobs.
Delivered == SumLen(output)

Next ==
    \/ \E id \in Ids, r \in SpawnResults : FreshId(id) /\ StartDownload(id, r)
    \/ \E h \in Handles, c \in StdoutChunks : Delivered < MaxChunks /\ OnStdoutData(h, c)
    \/ \E h \in Handles, c \in StderrChunks : Delivered < MaxChunks /\ OnStderrData(h, c)
    \/ \E h \in Handles, code \in ExitCodes \cup SpawnErrorCodes : OnClose(h, code)
    \/ \E h \in Handles : OnError(h)
    \/ \E t \in Thresholds : ClearOldJobs(t)
    \/ Tick

Spec == Init /\ [][Next]_vars

----------------------------------------------------------------------------
(* Properties of the job lifecycle *)

NonTerminal(job) == job.status \in {"pending", "downloading"}

\* One step of pending -> downloading -> {completed | failed}, or none.
StatusMove(s, t) ==
    \/ s = t
    \/ s = "pending" /\ t = "downloading"
    \/ s = "downloading" /\ t \in {"completed", "failed"}

\* C1: under every sequence of process events, the status of a job only moves
\* along pending -> downloading -> completed or failed; a job that is
\* completed or failed keeps that status whatever event follows.
C1_Lifecycle ==
    [][\A h \in DOMAIN heap' :
          IF h \in DOMAIN heap
          THEN StatusMove(heap[h].status, heap'[h].status)
          ELSE heap'[h].status \in {"pending", "downloading"}]_vars

\* A launch failed: 'error' made the job failed, and the 'close' that followed
\* was handled too.
C1_Witness ==
    \E h \in Handles :
        /\ proc[h].phase = "closed"
        /\ heap[h].status = "failed"
        /\ Len(notified[h]) = 2

\* C2: every record of the job store has endTime set if and only if its
\* status is completed or failed.
C2_EndTimeIffTerminal ==
    \A job \in GetAllJobs : IsSet(job.endTime) <=> Terminal(job.status)

\* The store holds a running record without endTime next to a record that a
\* launch error made failed.
C2_Witness ==
    /\ \E job \in GetAllJobs : job.status = "downloading" /\ ~IsSet(job.endTime)
    /\ \E h \in Handles :
          /\ proc[h].phase = "errored"
          /\ heap[h] \in GetAllJobs
          /\ IsSet(heap[h].endTime)

\* C3: every record getActiveDownloads returns is pending or downloading, and
\* no notification is emitted at a moment when the job's id is in the active
\* set while the stored record is completed or failed.
C3_ActiveNeverTerminal ==
    /\ \A job \in GetActiveDownloads : NonTerminal(job)
    /\ \A h \in Handles : \A i \in 1..Len(notified[h]) :
          LET seen == notified[h][i].seen
          IN  seen.active => (IsSet(seen.job) /\ NonTerminal(TheValue(seen.job)))

\* One job has ended with a terminal notification while another is still active.
C3_Witness ==
    /\ GetActiveDownloads # {}
    /\ \E h \in Handles :
          /\ heap[h].status = "completed"
          /\ notified[h] # <<>>
          /\ notified[h][Len(notified[h])].kind = "completed"

C5_Completed ==
    \A job \in GetAllJobs :
        job.status = "completed" =>
            /\ job.progress = Some(100 * Scale)
            /\ IsSet(job.endTime)
            /\ TheValue(job.endTime) >= job.startTime

\* A job completed after its output had reported 55%, one hour after its start.
C5_Witness ==
    \E h \in Handles :
        /\ heap[h] \in GetAllJobs
        /\ heap[h].status = "completed"
        /\ \E i \in 1..Len(output[h]) : output[h][i].chunk = "55%"
        /\ TheValue(heap[h].endTime) > heap[h].startTime

\* The text of a string made of segments is empty only if every segment is.
NonEmptyText(segments) == \E i \in 1..Len(segments) : segments[i] # ""

\* C6: every failed record has a non-empty error and endTime set.
C6_Failed ==
    \A job \in GetAllJobs :
        job.status = "failed" =>
            /\ IsSet(job.error)
            /\ NonEmptyText(TheValue(job.error))
            /\ IsSet(job.endTime)

\* One job failed by a non-zero exit and another by a launch error.
C6_Witness ==
    /\ \E h \in Handles :
          /\ heap[h] \in GetAllJobs
          /\ heap[h].status = "failed"
          /\ proc[h].phase = "closed"
          /\ Len(notified[h]) = 1
    /\ \E h \in Handles :
          /\ heap[h] \in GetAllJobs
          /\ heap[h].status = "failed"
          /\ proc[h].phase = "errored"

----------------------------------------------------------------------------
(* Properties of clearOldJobs and startDownload *)

\* A step that is a call of clearOldJobs (the clock does not move within it).
PruneStep == last'.op = "clearOldJobs" /\ now' = now

\* C7: clearOldJobs, whatever its threshold and whenever it is called, leaves
\* every pending or downloading record in the store.
C7_PruneKeepsNonTerminal ==
    [][PruneStep =>
          \A id \in DOMAIN jobs :
              NonTerminal(heap[jobs[id]]) => (id \in DOMAIN jobs' /\ jobs'[id] = jobs[id])]_vars

\* A sweep removed a record and kept a downloading one that had started
\* before the cutoff.
C7_Witness ==
    /\ last.op = "clearOldJobs"
    /\ last.removed # {}
    /\ \E job \in GetAllJobs :
          /\ job.status = "downloading"
          /\ job.startTime < last.at - last.olderThanHours * MsPerHour

\* The ids clearOldJobs has to remove when called with olderThanHours.
Expired(olderThanHours) ==
    {id \in DOMAIN jobs :
        LET job == heap[jobs[id]]
        IN  /\ Terminal(job.status)
            /\ IsSet(job.endTime)
            /\ TheValue(job.endTime) < now - olderThanHours * MsPerHour}

\* C8: clearOldJobs(threshold) at time now removes exactly the completed or
\* failed records whose endTime is strictly before now - threshold; the other
\* records stay as they are, and so does the active set.
C8_PruneExact ==
    [][PruneStep =>
          /\ DOMAIN jobs' = DOMAIN jobs \ Expired(last'.olderThanHours)
          /\ \A id \in DOMAIN jobs' : jobs'[id] = jobs[id] /\ heap'[jobs'[id]] = heap[jobs[id]]
          /\ activeDownloads' = activeDownloads]_vars

\* A sweep removed a record and kept a terminal one whose endTime is the cutoff.
C8_Witness ==
    /\ last.op = "clearOldJobs"
    /\ last.removed # {}
    /\ \E job \in GetAllJobs :
          /\ Terminal(job.status)
          /\ job.endTime = Some(last.at - last.olderThanHours * MsPerHour)

\* C9: right after startDownload(id, ...) has returned, getJob(id) is a record
\* with that id, pending or downloading, and the active view contains it.
C9_AfterStart ==
    (last.op = "startDownload" /\ last.returned) =>
        LET got == GetJob(last.id)
        IN  /\ IsSet(got)
            /\ TheValue(got).id = last.id
            /\ NonTerminal(TheValue(got))
            /\ last.id \in activeDownloads
            /\ TheValue(got) \in GetActiveDownloads

\* startDownload has returned for a job whose launch is about to fail, while
\* an earlier job is already terminal.
C9_Witness ==
    /\ last.op = "startDownload" /\ last.returned
    /\ proc[last.h].phase = "failing"
    /\ \E h \in Handles : Terminal(heap[h].status)

----------------------------------------------------------------------------
(* Specification of a single job and its output *)

OneJobStdoutChunks == {"10%", "55%", "100%", "[info] 1 format(s)"}

OneJobStderrChunks == {"warning: 3% lost"}

NextOneJob ==
    \/ \E id \in Ids, r \in SpawnResults : heap = <<>> /\ StartDownload(id, r)
    \/ \E h \in Handles, c \in OneJobStdoutChunks :
          Delivered < MaxOutput /\ OnStdoutData(h, c)
    \/ \E h \in Handles, c \in OneJobStderrChunks :
          Delivered < MaxOutput /\ OnStderrData(h, c)
    \/ \E h \in Handles, code \in ExitCodes \cup SpawnErrorCodes : OnClose(h, code)
    \/ \E h \in Handles : OnError(h)

SpecOneJob == Init /\ [][NextOneJob]_vars

\* The percentage a chunk of the single-job specification carries.
CarriedPercent(entry) ==
    IF entry.stream # "stdout" THEN None
    ELSE CASE entry.chunk = "10%" -> Some(10)
           [] entry.chunk = "55%" -> Some(55)
           [] entry.chunk = "100%" -> Some(100)
           [] OTHER -> None

RECURSIVE CarriedPercents(_)
CarriedPercents(out) ==
    IF out = <<>> THEN <<>>
    ELSE (IF IsSet(CarriedPercent(Head(out)))
          THEN <<TheValue(CarriedPercent(Head(out))) * Scale>> ELSE <<>>)
           \o CarriedPercents(Tail(out))

RECURSIVE ProgressNotified(_)
ProgressNotified(events) ==
    IF events = <<>> THEN <<>>
    ELSE (IF Head(events).kind = "progress"
          THEN <<TheValue(Head(events).payload.progress)>> ELSE <<>>)
           \o ProgressNotified(Tail(events))

ScenarioOutput ==
    <<[stream |-> "stdout", chunk |-> "10%"], [stream |-> "stdout", chunk |-> "55%"],
      [stream |-> "stdout", chunk |-> "100%"]>>

\* C10: the progress notifications of a job are, in order, the percentages of
\* the stdout chunks that carried one, one per chunk, and none comes after the
\* completed or failed notification; after the chunks 10%, 55%, 100% and exit
\* code 0 they are 10, 55, 100 and the record is completed with progress 100.
C10_ProgressOrder ==
    \A h \in Handles :
        /\ ProgressNotified(notified[h]) = CarriedPercents(output[h])
        /\ \A i, j \in 1..Len(notified[h]) :
              (i < j /\ notified[h][j].kind = "progress") => notified[h][i].kind = "progress"
        /\ (output[h] = ScenarioOutput /\ proc[h].phase = "closed" /\ proc[h].code = Some(0)) =>
              /\ ProgressNotified(notified[h]) = <<10 * Scale, 55 * Scale, 100 * Scale>>
              /\ Len(notified[h]) = 4 /\ notified[h][4].kind = "completed"
              /\ IsSet(GetJob(heap[h].id))
              /\ TheValue(GetJob(heap[h].id)).status = "completed"
              /\ TheValue(GetJob(heap[h].id)).progress = Some(100 * Scale)

\* The process wrote 10%, 55%, 100% and exited with code 0.
C10_Witness ==
    \E h \in Handles :
        /\ output[h] = ScenarioOutput
        /\ proc[h].phase = "closed"
        /\ proc[h].code = Some(0)

----------------------------------------------------------------------------
(* Properties of the failure paths *)

\* The job's process has exited with a code other than 0.
ExitedNonZero(h) ==
    proc[h].phase = "closed" /\ proc[h].code # Some(0)

\* C11: after a non-zero exit the job is failed, its error consists of the
\* exit code followed by every stdout and stderr chunk received, in arrival
\* order, and the last notification is 'failed' with the record.
C11_FailedWithOutput ==
    \A h \in Handles :
        ExitedNonZero(h) =>
            /\ heap[h].status = "failed"
            /\ IsSet(heap[h].error)
            /\ LET error == TheValue(heap[h].error)
               IN  /\ Len(error) = 3 + Len(output[h])
                   /\ error[1] = "Download failed with exit code: "
                   /\ proc[h].code = Some(1) => error[2] = "1"
                   /\ proc[h].code = Some(-2) => error[2] = "-2"
                   /\ \A i \in 1..Len(output[h]) : error[3 + i] = output[h][i].chunk
            /\ notified[h] # <<>>
            /\ notified[h][Len(notified[h])].kind = "failed"
            /\ notified[h][Len(notified[h])].payload = heap[h]

\* Exit code 1 after a stderr chunk that was followed by a stdout chunk.
C11_Witness ==
    \E h \in Handles :
        /\ proc[h].phase = "closed"
        /\ proc[h].code = Some(1)
        /\ Len(output[h]) >= 2
        /\ output[h][1].stream = "stderr"
        /\ output[h][2].stream = "stdout"

\* The launch of the job's process failed: spawn threw, or 'error' was emitted.
LaunchFailed(h) ==
    \/ proc[h].phase \in {"thrown", "errored"}
    \/ proc[h].phase = "closed" /\ proc[h].code \in SpawnErrorCodes

\* C12: a launch failure is never raised to the caller of startDownload, which
\* returns the id; the job's record becomes failed with an error and endTime,
\* its id leaves the active set and a 'failed' notification is emitted.
C12_LaunchErrorCaptured ==
    /\ last.op = "startDownload" => last.returned
    /\ \A h \in Handles :
          LaunchFailed(h) =>
              /\ heap[h].status = "failed"
              /\ IsSet(heap[h].error) /\ NonEmptyText(TheValue(heap[h].error))
              /\ IsSet(heap[h].endTime)
              /\ heap[h].id \notin activeDownloads
              /\ \E i \in 1..Len(notified[h]) : notified[h][i].kind = "failed"

----------------------------------------------------------------------------
(* Properties of the progress field *)

\* The step emits a progress notification for job h.
ProgressEmitted(h) ==
    /\ Len(notified'[h]) > Len(notified[h])
    /\ notified'[h][Len(notified'[h])].kind = "progress"

\* C13: progress is written only while the job is downloading, or set to 100
\* by the step that completes it; an event handled for a job that is already
\* completed or failed changes no progress and emits no progress notification.
C13_ProgressOnlyWhileRunning ==
    [][\A h \in DOMAIN heap :
          /\ heap'[h].progress # heap[h].progress =>
                /\ heap[h].status = "downloading"
                /\ \/ heap'[h].status = "downloading"
                   \/ heap'[h].status = "completed" /\ heap'[h].progress = Some(100 * Scale)
          /\ ProgressEmitted(h) =>
                heap[h].status = "downloading" /\ heap'[h].status = "downloading"]_vars

\* One job reports 55% while downloading; another was failed by 'error' and
\* has handled the 'close' that followed, its progress still unset.
C13_Witness ==
    /\ \E h \in Handles :
          heap[h].status = "downloading" /\ heap[h].progress = Some(55 * Scale)
    /\ \E h \in Handles :
          /\ proc[h].phase = "closed" /\ proc[h].code \in SpawnErrorCodes
          /\ heap[h].progress = None

----------------------------------------------------------------------------
(* Specification of a single job and the lines its process may print *)

PrintedStdoutChunks ==
    {"10%", "55%", "[download] 150% of ~1MiB", "[download]  42.5% of 10.00MiB",
     "[download] Destination: /tmp/movie.mp4",
     "[download] Destination: a.mp4\n[download]   7.0% of 1MiB", "[info] 1 format(s)",
     "[download]  12.5% of 3MiB, 80% left", "[download] Destination: /tmp/50% off/clip.mp4"}

NextPrinted ==
    \/ \E id \in Ids, r \in SpawnResults : heap = <<>> /\ StartDownload(id, r)
    \/ \E h \in Handles, c \in PrintedStdoutChunks :
          Delivered < MaxOutput /\ OnStdoutData(h, c)
    \/ \E h \in Handles, code \in ExitCodes \cup SpawnErrorCodes : OnClose(h, code)
    \/ \E h \in Handles : OnError(h)

SpecPrinted == Init /\ [][NextPrinted]_vars

\* C14: whenever the progress of a record is set, it lies in 0..100.
C14_ProgressInRange ==
    \A job \in GetAllJobs :
        IsSet(job.progress) =>
            (0 <= TheValue(job.progress) /\ TheValue(job.progress) <= 100 * Scale)

\* The percentage each printed chunk carries, times Scale.
PrintedPercent(chunk) ==
    CASE chunk = "10%" -> Some(10 * Scale)
      [] chunk = "55%" -> Some(55 * Scale)
      [] chunk = "[download] 150% of ~1MiB" -> Some(150 * Scale)
      [] chunk = "[download]  42.5% of 10.00MiB" -> Some((425 * Scale) \div 10)
      [] chunk = "[download] Destination: a.mp4\n[download]   7.0% of 1MiB" -> Some(7 * Scale)
      [] chunk = "[download]  12.5% of 3MiB, 80% left" -> Some((125 * Scale) \div 10)
      [] chunk = "[download] Destination: /tmp/50% off/clip.mp4" -> Some(50 * Scale)
      [] OTHER -> None

\* Job h is downloading before and after the step.
StaysDownloading(h) ==
    heap[h].status = "downloading" /\ heap'[h].status = "downloading"

\* C15 as claimed: while a job is downloading, no step lowers its progress.
C15_Monotonic ==
    [][\A h \in DOMAIN heap :
          (StaysDownloading(h) /\ IsSet(heap[h].progress)) =>
              /\ IsSet(heap'[h].progress)
              /\ TheValue(heap'[h].progress) >= TheValue(heap[h].progress)]_vars

\* C15 as amended: while a job is downloading its progress stays set, and a
\* step lowers it only by handling a stdout chunk that carries the lower
\* percentage.
C15_LoweredOnlyByChunk ==
    [][\A h \in DOMAIN heap :
          (StaysDownloading(h) /\ IsSet(heap[h].progress)) =>
              /\ IsSet(heap'[h].progress)
              /\ TheValue(heap'[h].progress) < TheValue(heap[h].progress) =>
                    \E c \in PrintedStdoutChunks :
                        /\ output'[h] = Append(output[h], [stream |-> "stdout", chunk |-> c])
                        /\ PrintedPercent(c) = heap'[h].progress]_vars

\* The process printed 55% and then 10%: the progress went down to 10.
C15_Witness ==
    \E h \in Handles :
        /\ heap[h].status = "downloading"
        /\ Len(output[h]) = 2
        /\ output[h][1].chunk = "55%" /\ output[h][2].chunk = "10%"
        /\ heap[h].progress = Some(10 * Scale)

----------------------------------------------------------------------------
(* generateJobId *)

\* Math.random() draws, each given by the base-36 digits after the point of
\* its toString(36); the draw 0 has none.
RandomDraws ==
    {<<>>, <<"i">>,
     <<"k", "3", "x", "9", "q", "2", "m", "7", "a", "f", "1">>,
     <<"k", "3", "x", "9", "q", "2", "m", "7", "a", "z", "8">>,
     <<"k", "z", "x", "9", "q", "2", "m", "7", "a", "f", "1">>}

\* Math.random().toString(36)
RandomText(draw) == IF draw = <<>> THEN <<"0">> ELSE <<"0", ".">> \o draw

\* String.prototype.substr(start, length)
Substr(text, start, length) ==
    SubSeq(text, start + 1, IF start + length < Len(text) THEN start + length ELSE Len(text))

\* An id that leaves out the clock.
JobIdWithoutTime(draw) ==
    [prefix |-> "dl_", time |-> 0, sep |-> "_", suffix |-> Substr(RandomText(draw), 2, 9)]

\* `dl_${Date.now()}_${Math.random().toString(36).substr(2, 9)}`: the parts
\* of the string (neither the time nor the suffix contains "_", so two ids
\* are the same string exactly if their parts are equal).
JobId(draw) ==
    [prefix |-> "dl_", time |-> now, sep |-> "_", suffix |-> Substr(RandomText(draw), 2, 9)]

\* generateJobId(): `last` collects the results of the calls made so far.
GenerateJobId(draw) ==
    /\ last' = [op |-> "generateJobId",
                calls |-> Append(IF last.op = "generateJobId" THEN last.calls ELSE <<>>,
                                 [at |-> now, draw |-> draw, id |-> JobId(draw)])]
    /\ UNCHANGED <<heap, jobs, activeDownloads, proc, output, notified, now>>

IdsGenerated == IF last.op = "generateJobId" THEN Len(last.calls) ELSE 0

NextIds ==
    \/ \E draw \in RandomDraws : IdsGenerated < MaxIds /\ GenerateJobId(draw)
    \/ Tick

SpecIds == Init /\ [][NextIds]_vars

Leading(draw) == [k \in 1..(IF Len(draw) < 9 THEN Len(draw) ELSE 9) |-> draw[k]]

----------------------------------------------------------------------------
(* checkDownloads *)

ActiveJobs(allJobs) ==
    {job \in allJobs : job.status = "downloading" \/ job.status = "pending"}

\* A filter that takes every job that has ended for completed.
CompletedJobsAnyEnd(allJobs) == {job \in allJobs : IsSet(job.endTime)}

CompletedJobs(allJobs) == {job \in allJobs : job.status = "completed"}

FailedJobs(allJobs) == {job \in allJobs : job.status = "failed"}

\* Math.floor(duration / 1000)
DurationSeconds(from, to) == (to - from) \div 1000

\* progress.toFixed(1), in tenths (halves rounded up).
ToFixed1(progress) == (progress * 10 + Scale \div 2) \div Scale

\* The lines of one active job: progress (0 and undefined are both falsy),
\* elapsed time, and the file name when it is a non-empty string.
ActiveEntry(job) ==
    [id |-> job.id,
     progress |-> IF IsSet(job.progress) /\ TheValue(job.progress) # 0
                  THEN [tenths |-> ToFixed1(TheValue(job.progress))]
                  ELSE [text |-> "Starting..."],
     seconds |-> DurationSeconds(job.startTime, now),
     file |-> IF IsSet(job.filename) /\ TheValue(job.filename) # <<>>
              THEN job.filename ELSE None]

CompletedEntry(job) ==
    [id |-> job.id,
     seconds |-> IF IsSet(job.endTime)
                 THEN DurationSeconds(job.startTime, TheValue(job.endTime)) ELSE 0,
     file |-> IF IsSet(job.filename) /\ TheValue(job.filename) # <<>>
              THEN job.filename ELSE None]

FailedEntry(job) ==
    [id |-> job.id,
     error |-> IF IsSet(job.error) /\ (\E i \in 1..Len(TheValue(job.error)) :
                                          TheValue(job.error)[i] # "")
               THEN job.error ELSE None]

\* One section of the report: left out when it has no job, else its count
\* and the entries of its jobs.
Section(sectionJobs, entries) ==
    IF sectionJobs = {} THEN None
    ELSE Some([count |-> Cardinality(sectionJobs), entries |-> entries])

\* checkDownloads(): the text it resolves to, by its parts.
CheckDownloads ==
    LET allJobs == GetAllJobs
    IN  IF allJobs = {} THEN [message |-> "No downloads found."]
        ELSE [header |-> "Download Status Summary:",
              active |-> Section(ActiveJobs(allJobs),
                                 {ActiveEntry(job) : job \in ActiveJobs(allJobs)}),
              completed |-> Section(CompletedJobs(allJobs),
                                    {CompletedEntry(job) : job \in CompletedJobs(allJobs)}),
              failed |-> Section(FailedJobs(allJobs),
                                 {FailedEntry(job) : job \in FailedJobs(allJobs)})]

\* The section lists the id.
Lists(section, id) == IsSet(section) /\ \E e \in TheValue(section).entries : e.id = id

\* The count a section shows (a section that is left out shows none).
Shown(section) == IF IsSet(section) THEN TheValue(section).count ELSE 0

StoredWithStatus(statuses) == {id \in DOMAIN jobs : heap[jobs[id]].status \in statuses}

\* C17: checkDownloads gives the no-downloads message exactly when the store
\* is empty; otherwise each stored record is listed in the section of its
\* status and in no other, each section's count is the number of records in
\* that status, and a failed record is listed with its stored error.
C17_Summary ==
    LET report == CheckDownloads
    IN  IF DOMAIN jobs = {} THEN report = [message |-> "No downloads found."]
        ELSE /\ "message" \notin DOMAIN report
             /\ \A id \in DOMAIN jobs :
                   LET job == heap[jobs[id]]
                   IN  /\ Lists(report.active, id) <=> NonTerminal(job)
                       /\ Lists(report.completed, id) <=> job.status = "completed"
                       /\ Lists(report.failed, id) <=> job.status = "failed"
                       /\ job.status = "failed" =>
                             \E e \in TheValue(report.failed).entries :
                                 e.id = id /\ e.error = job.error /\ IsSet(e.error)
             /\ Shown(report.active) = Cardinality(StoredWithStatus({"pending", "downloading"}))
             /\ Shown(report.completed) = Cardinality(StoredWithStatus({"completed"}))
             /\ Shown(report.failed) = Cardinality(StoredWithStatus({"failed"}))

\* The store holds a downloading record and a failed one.
C17_Witness ==
    /\ StoredWithStatus({"downloading"}) # {}
    /\ StoredWithStatus({"failed"}) # {}

----------------------------------------------------------------------------
(* Properties of the process supervision *)

\* C18: every job object has exactly one process, launched by its
\* startDownload call; no callback launches a process or puts an ended
\* process back to running, and a failed job stays failed.
C18_NoRetry ==
    [][/\ Len(proc') = Len(heap')
       /\ Len(proc') > Len(proc) =>
             (last'.op = "startDownload" /\ last'.h = Len(proc') /\ Len(proc') = Len(proc) + 1)
       /\ \A h \in DOMAIN proc :
             /\ proc'[h].phase \in {"running", "failing", "thrown"} => proc'[h] = proc[h]
             /\ heap[h].status = "failed" => heap'[h].status = "failed"]_vars

\* A job has failed with exit code 1 and the caller has then started a new job.
C18_Witness ==
    /\ last.op = "startDownload"
    /\ \E h \in Handles :
          /\ h # last.h
          /\ proc[h].phase = "closed" /\ proc[h].code = Some(1)
          /\ heap[h].status = "failed"

\* The printed chunks that announce a destination.
PrintedDestination(chunk) ==
    chunk \in {"[download] Destination: /tmp/movie.mp4",
               "[download] Destination: a.mp4\n[download]   7.0% of 1MiB",
               "[download] Destination: /tmp/50% off/clip.mp4"}

\* C19: a stdout chunk with neither a percentage nor a destination changes no
\* field of the record, nothing in the store or the active set, and emits no
\* notification; a chunk without a destination leaves filename as it was, a
\* chunk without a percentage leaves progress as it was and emits nothing; no
\* stdout chunk changes status, error or endTime.
C19_ParseMiss ==
    [][\A h \in DOMAIN heap : \A c \in PrintedStdoutChunks :
          output'[h] = Append(output[h], [stream |-> "stdout", chunk |-> c]) =>
              /\ (~IsSet(PrintedPercent(c)) /\ ~PrintedDestination(c)) =>
                    /\ heap' = heap /\ jobs' = jobs
                    /\ activeDownloads' = activeDownloads /\ notified' = notified
              /\ ~PrintedDestination(c) => heap'[h].filename = heap[h].filename
              /\ ~IsSet(PrintedPercent(c)) =>
                    heap'[h].progress = heap[h].progress /\ notified' = notified
              /\ heap'[h].status = heap[h].status
              /\ heap'[h].error = heap[h].error
              /\ heap'[h].endTime = heap[h].endTime]_vars

\* After 55% and a destination, a line with neither pattern was handled.
C19_Witness ==
    \E h \in Handles :
        /\ Len(output[h]) = 3
        /\ output[h][3].chunk = "[info] 1 format(s)"
        /\ heap[h].progress = Some(55 * Scale)
        /\ heap[h].filename = Some(<<"m", "o", "v", "i", "e", ".", "m", "p", "4">>)
        /\ Len(notified[h]) = 1

\* C20: a process event of one job changes no field of another job's record,
\* nor that record's place in the store, its notifications or the membership
\* of its id in the active set (the jobs have different ids).
C20_Independent ==
    [][\A h \in DOMAIN heap :
          (last'.op = "callback" /\ proc'[h] = proc[h] /\ output'[h] = output[h]) =>
              LET id == heap[h].id
              IN  /\ heap'[h] = heap[h]
                  /\ notified'[h] = notified[h]
                  /\ id \in activeDownloads' <=> id \in activeDownloads
                  /\ id \in DOMAIN jobs' <=> id \in DOMAIN jobs
                  /\ id \in DOMAIN jobs => jobs'[id] = jobs[id]]_vars

\* Two jobs have both handled output; one has ended, the other is still
\* downloading and active.
C20_Witness ==
    \E g, h \in Handles :
        /\ heap[g].id # heap[h].id
        /\ output[g] # <<>> /\ output[h] # <<>>
        /\ Terminal(heap[g].status)
        /\ heap[h].status = "downloading"
        /\ heap[h].id \in activeDownloads

----------------------------------------------------------------------------
(* Properties of the progress interpreter *)

\* The last path segment each printed destination notice names.
PrintedFilename(chunk) ==
    CASE chunk = "[download] Destination: /tmp/movie.mp4" ->
            Some(<<"m", "o", "v", "i", "e", ".", "m", "p", "4">>)
      [] chunk = "[download] Destination: a.mp4\n[download]   7.0% of 1MiB" ->
            Some(<<"a", ".", "m", "p", "4">>)
      [] chunk = "[download] Destination: /tmp/50% off/clip.mp4" ->
            Some(<<"c", "l", "i", "p", ".", "m", "p", "4">>)
      [] OTHER -> None

\* C21: handling one stdout chunk sets progress to the first number that is
\* immediately followed by a percent sign in the chunk (42.5 for a chunk with
\* 42.5%) and filename to the last segment of the path after the destination
\* prefix (movie.mp4 for /tmp/movie.mp4), each whether or not the other
\* pattern is found; a chunk with both patterns sets both.
C21_Interpreter ==
    [][\A h \in DOMAIN heap : \A c \in PrintedStdoutChunks :
          output'[h] = Append(output[h], [stream |-> "stdout", chunk |-> c]) =>
              /\ heap'[h].progress =
                    IF IsSet(PrintedPercent(c)) THEN PrintedPercent(c) ELSE heap[h].progress
              /\ heap'[h].filename =
                    IF IsSet(PrintedFilename(c)) THEN PrintedFilename(c) ELSE heap[h].filename
              /\ c = "[download]  42.5% of 10.00MiB" =>
                    heap'[h].progress = Some((425 * Scale) \div 10)
              /\ IsSet(GetJob(heap[h].id)') /\ GetJob(heap[h].id)' = Some(heap'[h])]_vars

\* After 42.5% and /tmp/movie.mp4, a destination notice whose path contains
\* a percentage has set both fields.
C21_Witness ==
    \E h \in Handles :
        /\ Len(output[h]) = 3
        /\ output[h][1].chunk = "[download]  42.5% of 10.00MiB"
        /\ output[h][2].chunk = "[download] Destination: /tmp/movie.mp4"
        /\ output[h][3].chunk = "[download] Destination: /tmp/50% off/clip.mp4"
        /\ heap[h].progress = Some(50 * Scale)
        /\ heap[h].filename = Some(<<"c", "l", "i", "p", ".", "m", "p", "4">>)

\* The percentage of the most recent chunk of out that carried one.
RECURSIVE LatestPercent(_)
LatestPercent(out) ==
    IF out = <<>> THEN None
    ELSE LET entry == out[Len(out)]
         IN  IF entry.stream = "stdout" /\ IsSet(PrintedPercent(entry.chunk))
             THEN PrintedPercent(entry.chunk)
             ELSE LatestPercent(SubSeq(out, 1, Len(out) - 1))

\* C22: while a job is downloading, its progress is the percentage of the
\* most recent stdout chunk that carried one, whatever the earlier chunks
\* carried, and is unset if no chunk carried one.
C22_LatestWins ==
    \A h \in Handles :
        heap[h].status = "downloading" => heap[h].progress = LatestPercent(output[h])

\* After 150% and 10%, a line without a percentage was handled: progress is 10.
C22_Witness ==
    \E h \in Handles :
        /\ heap[h].status = "downloading"
        /\ Len(output[h]) = 3
        /\ output[h][1].chunk = "[download] 150% of ~1MiB"
        /\ output[h][2].chunk = "10%"
        /\ output[h][3].chunk = "[info] 1 format(s)"
        /\ heap[h].progress = Some(10 * Scale)

----------------------------------------------------------------------------
(* Properties of the order of launch, callbacks and notifications *)

\* The step runs a callback of job h's process.
CallbackOf(h) ==
    last'.op = "callback" /\ (proc'[h] # proc[h] \/ output'[h] # output[h])

\* C23: when startDownload returns, the stored record is already downloading,
\* and no stdout, stderr, close or error callback of a job runs while the
\* job is pending.
C23_RunningAtLaunch ==
    [][/\ (last'.op = "startDownload" /\ last'.returned /\ Len(heap') > Len(heap)) =>
             /\ heap'[last'.h].status = "downloading"
             /\ last'.id \in DOMAIN jobs'
             /\ heap'[jobs'[last'.id]].status = "downloading"
       /\ \A h \in DOMAIN heap : CallbackOf(h) => heap[h].status # "pending"]_vars

\* The first callback after the launch, a stderr chunk, found the job
\* downloading.
C23_Witness ==
    \E h \in Handles :
        /\ heap[h].status = "downloading"
        /\ Len(output[h]) = 1
        /\ output[h][1].stream = "stderr"
        /\ notified[h] = <<>>

----------------------------------------------------------------------------
(* Specification with fair delivery of the process events *)

\* The child process of job h exits; its 'close' event is then pending.
\* Whether and when a process exits is up to the process.
ProcessExits(h, code) ==
    /\ h \in Handles
    /\ proc[h].phase = "running"
    /\ proc' = [proc EXCEPT ![h] = [phase |-> "exited", code |-> code]]
    /\ UNCHANGED <<heap, jobs, activeDownloads, output, notified, now, last>>

\* The event loop delivers the pending 'close' of job h: of a process that
\* has exited, or of a launch whose 'error' was delivered.
DeliverClose(h) ==
    /\ h \in Handles
    /\ \/ proc[h].phase = "exited" /\ CloseHandler(h, proc[h].code)
       \/ proc[h].phase = "errored" /\ \E code \in SpawnErrorCodes : CloseHandler(h, code)

\* The job objects a behaviour can create.
AllHandles == 1..Cardinality(Ids)

NextFair ==
    \/ \E id \in Ids, r \in SpawnResults : FreshId(id) /\ StartDownload(id, r)
    \/ \E h \in Handles, c \in StdoutChunks : Delivered < MaxChunks /\ OnStdoutData(h, c)
    \/ \E h \in Handles, c \in StderrChunks : Delivered < MaxChunks /\ OnStderrData(h, c)
    \/ \E h \in Handles, code \in ExitCodes : ProcessExits(h, code)
    \/ \E h \in Handles : DeliverClose(h)
    \/ \E h \in Handles : OnError(h)

\* Node's event loop runs every pending event: an 'error' or 'close' that is
\* due is delivered.
SpecFair ==
    /\ Init /\ [][NextFair]_vars
    /\ \A h \in AllHandles : WF_vars(DeliverClose(h)) /\ WF_vars(OnError(h))

\* The process of job h has exited or its launch has failed.
ExitedOrNotLaunched(h) ==
    h \in Handles /\ proc[h].phase \in {"exited", "failing", "thrown"}

\* Job h is final: completed or failed, and out of the active view.
Finalized(h) ==
    /\ h \in Handles
    /\ Terminal(heap[h].status)
    /\ heap[h].id \notin activeDownloads
    /\ heap[h] \notin GetActiveDownloads

\* C24: every started job whose process exits, with any code, or fails to
\* launch eventually becomes completed or failed and leaves the active view;
\* as long as its process has not exited the job stays downloading and active.
C24_EventuallyFinal ==
    /\ \A h \in AllHandles : ExitedOrNotLaunched(h) ~> Finalized(h)
    /\ [](\A h \in Handles :
             proc[h].phase = "running" =>
                 (heap[h].status = "downloading" /\ heap[h] \in GetActiveDownloads))

----------------------------------------------------------------------------
(* Properties of the terminal notifications and of the store *)

\* The positions of the 'completed' and 'failed' notifications of job h.
TerminalNotifications(h) ==
    {i \in 1..Len(notified[h]) : notified[h][i].kind \in {"completed", "failed"}}

\* C25: over the whole life of a job at most one terminal notification is
\* emitted, and exactly one once its process has closed, also when 'error'
\* is followed by 'close'.
C25_OneTerminalNotification ==
    \A h \in Handles :
        /\ Cardinality(TerminalNotifications(h)) <= 1
        /\ proc[h].phase = "closed" => Cardinality(TerminalNotifications(h)) = 1

\* C26: an id that is not in the store, such as the id of a record that
\* clearOldJobs has removed, enters the store only by a startDownload call
\* with that id; no callback of a removed job puts its record back.
C26_PrunedStaysAbsent ==
    [][\A id \in DOMAIN jobs' \ DOMAIN jobs :
          last'.op = "startDownload" /\ last'.id = id /\ Len(heap') = Len(heap) + 1]_vars

----------------------------------------------------------------------------
(* Specification of a caller that gives the same id to several jobs *)

\* startDownload does not look the id up: it may be in the store already.
ReusedIds == {"dl_1"}

NextReuse ==
    \/ \E id \in ReusedIds, r \in SpawnResults :
          Len(heap) < MaxStarts /\ StartDownload(id, r)
    \/ \E h \in Handles, c \in StdoutChunks : Delivered < MaxChunks /\ OnStdoutData(h, c)
    \/ \E h \in Handles, c \in StderrChunks : Delivered < MaxChunks /\ OnStderrData(h, c)
    \/ \E h \in Handles, code \in ExitCodes \cup SpawnErrorCodes : OnClose(h, code)
    \/ \E h \in Handles : OnError(h)

SpecReuse == Init /\ [][NextReuse]_vars

\* The job object most recently started with the id.
LatestStarted(id) ==
    CHOOSE h \in Handles : heap[h].id = id /\ \A g \in Handles : heap[g].id = id => g <= h

\* C27: once an id has been given to a second job while the first job's
\* process had not exited, getJob(id) is the record of the most recently
\* started job, and the id stays in the active set while that job is pending
\* or downloading, whatever callback of the earlier process runs.
C27_LatestJobStored ==
    \A id \in DOMAIN jobs :
        LET h == LatestStarted(id)
        IN  /\ GetJob(id) = Some(heap[h])
            /\ jobs[id] = h
            /\ NonTerminal(heap[h]) => id \in activeDownloads

\* C28: what a subscriber reads from the manager inside a 'completed' or
\* 'failed' notification: getJob(id) is a record in that terminal status with
\* endTime set, with progress 100 when completed, and the id is not active.
C28_StoreAtNotification ==
    \A h \in Handles : \A i \in TerminalNotifications(h) :
        LET event == notified[h][i]
            seen == event.seen
        IN  /\ IsSet(seen.job)
            /\ TheValue(seen.job).status = event.kind
            /\ IsSet(TheValue(seen.job).endTime)
            /\ event.kind = "completed" => TheValue(seen.job).progress = Some(100 * Scale)
            /\ ~seen.active

\* C29: every id in the active set has a record in the store, so
\* getActiveDownloads returns a record for every active id.
C29_ActiveAreStored ==
    /\ activeDownloads \subseteq DOMAIN jobs
    /\ Cardinality(GetActiveDownloads) = Cardinality(activeDownloads)

\* clearOldJobs has just removed a record while the job of another id, whose
\* launch threw, is active.
C29_Witness ==
    /\ last.op = "clearOldJobs"
    /\ last.removed # {}
    /\ \E h \in Handles : proc[h].phase = "thrown" /\ heap[h].id \in activeDownloads

====
